---- MODULE Spec2Model ----
(***************************************************************************)
(* The lot ledger of honest-portfolio and the requests that change it:     *)
(* purchases (lots), sales, and the FIFO purchase/sale assignments made by *)
(* app/services/sale_service.py, with the routes that call it.             *)
(*                                                                         *)
(* Share quantities are whole multiples of the tolerance of                *)
(* sale_service.py (0.0001 share), so TOLERANCE is 1 unit; money is in     *)
(* units of (share unit x price unit).  The database is the set of         *)
(* committed rows; a request in flight keeps what it has read and what it  *)
(* has flushed but not committed in its own session.                       *)
(***************************************************************************)
EXTENDS Integers, Sequences, FiniteSets, TLC

\* ---------------------------------------------------------------- bounds
MaxPurchases == 2
MaxSales == 2

Workers == {1, 2}
Owners == {1, 2}
Tickers == {"AAPL", "MSFT"}

\* The inputs of the requests.  A purchase is <<owner, ticker, date, n, price>>,
\* n the quantity (detailed mode) or the amount (quick mode); a quantity, an
\* amount or a price of 0 is the invalid input.  A sale is <<<<owner, ticker>>,
\* date, shares, price, <<reinvest ticker, reinvest amount>>>>.  A lot of 4
\* sold 3 from is left with 1, a remainder the walk skips.
SeqInputs ==
    [detailed |-> {<<1, "AAPL", 1, 4, 2>>, <<1, "AAPL", 2, 2, 2>>,
                   <<2, "AAPL", 1, 2, 2>>,
                   <<1, "AAPL", 1, 0, 2>>, <<1, "AAPL", 1, 2, 0>>},
     quick    |-> {<<1, "AAPL", 1, 8>>, <<1, "AAPL", 1, 0>>},
     sale     |-> {<<<<1, "AAPL">>, 1, 2, 3, <<"", 0>>>>,
                   <<<<1, "AAPL">>, 1, 3, 3, <<"", 0>>>>,
                   <<<<1, "AAPL">>, 1, 6, 3, <<"", 0>>>>,
                   <<<<2, "AAPL">>, 1, 2, 3, <<"", 0>>>>,
                   <<<<1, "AAPL">>, 1, 2, 3, <<"MSFT", 4>>>>,
                   <<<<1, "AAPL">>, 1, 2, 3, <<"MSFT", 8>>>>,
                   <<<<1, "AAPL">>, 1, 2, 3, <<"MSFT", -4>>>>,
                   <<<<1, "AAPL">>, 1, 2, 3, <<"XXXX", 4>>>>,
                   <<<<1, "AAPL">>, 1, 0, 3, <<"", 0>>>>,
                   <<<<1, "AAPL">>, 1, 2, 0, <<"", 0>>>>},
     preview  |-> {<<<<1, "AAPL">>, 0>>, <<<<1, "AAPL">>, 2>>, <<<<1, "AAPL">>, 6>>}]

ConcInputs ==
    [detailed |-> {<<1, "AAPL", 1, 4, 2>>},
     quick    |-> {},
     sale     |-> {<<<<1, "AAPL">>, 1, 2, 3, <<"", 0>>>>,
                   <<<<1, "AAPL">>, 1, 3, 3, <<"", 0>>>>},
     preview  |-> {<<<<1, "AAPL">>, 3>>}]

\* the inputs of the runs that call link_sale_to_reinvestment directly; link
\* holds the reinvested amounts tried (the proceeds of the sales are 6)
LinkInputs ==
    [detailed |-> {<<1, "AAPL", 1, 4, 2>>, <<2, "AAPL", 1, 2, 2>>},
     quick    |-> {},
     sale     |-> {<<<<1, "AAPL">>, 1, 2, 3, <<"", 0>>>>,
                   <<<<1, "AAPL">>, 1, 2, 3, <<"MSFT", 4>>>>},
     preview  |-> {},
     link     |-> {0, 6, 8}]

\* requests on three (owner, ticker) pairs, one of them reinvesting
ParInputs ==
    [detailed |-> {<<1, "AAPL", 1, 4, 2>>, <<2, "AAPL", 1, 2, 2>>,
                   <<1, "MSFT", 1, 2, 2>>},
     quick    |-> {},
     sale     |-> {<<<<1, "AAPL">>, 1, 2, 3, <<"", 0>>>>,
                   <<<<2, "AAPL">>, 1, 2, 3, <<"", 0>>>>,
                   <<<<1, "MSFT">>, 1, 2, 3, <<"", 0>>>>,
                   <<<<1, "AAPL">>, 1, 2, 3, <<"MSFT", 4>>>>},
     preview  |-> {<<<<1, "AAPL">>, 2>>, <<<<2, "AAPL">>, 2>>}]

\* the requests of the runs that watch the current-price cache; a plain
\* sale, one that reinvests, and one whose reinvestment ticker is unknown
CacheInputs ==
    [detailed |-> {<<1, "AAPL", 1, 4, 2>>, <<2, "AAPL", 1, 2, 2>>},
     quick    |-> {},
     sale     |-> {<<<<1, "AAPL">>, 1, 2, 3, <<"", 0>>>>,
                   <<<<1, "AAPL">>, 1, 2, 3, <<"MSFT", 4>>>>,
                   <<<<1, "AAPL">>, 1, 2, 3, <<"XXXX", 4>>>>},
     preview  |-> {}]

\* what the price oracle may answer for a ticker and date; 0 is None
OraclePrices == {0, 2}

\* ------------------------------------------------------ program constants
TOLERANCE == 1
None == -1

VARIABLES
    purchases,    \* committed rows of table purchases
    sales,        \* committed rows of table sales
    assignments,  \* committed rows of table purchase_sale_assignments
    pc,           \* per worker: where its POST /sales request stands
    req,          \* per worker: the request's arguments
    snap,         \* per worker: the lots as the session loaded them
    txSale,       \* per worker: the Sale object of its session
    dbLock,       \* the worker holding the database's write lock, 0 if none
    resp,         \* the last response sent
    price_cache   \* the tickers whose current price the process has cached

vars == <<purchases, sales, assignments, pc, req, snap, txSale, dbLock, resp,
          price_cache>>

Ledger == <<purchases, sales, assignments>>

\* ---------------------------------------------------------------- helpers
Min(a, b) == IF a <= b THEN a ELSE b

MaxOf(S) == IF S = {} THEN 0 ELSE CHOOSE x \in S : \A y \in S : y <= x

Ids(R) == {r.id : r \in R}

\* the id the database gives a new row: one more than the largest rowid
NextId(R) == MaxOf(Ids(R)) + 1

RECURSIVE SumAssigned(_)
SumAssigned(A) ==
    IF A = {} THEN 0
    ELSE LET a == CHOOSE x \in A : TRUE
         IN a.shares_assigned + SumAssigned(A \ {a})

\* Purchase.shares_sold
SharesSold(A, pid) == SumAssigned({a \in A : a.purchase_id = pid})

\* Purchase.shares_remaining
SharesRemaining(p, A) == p.shares_bought - SharesSold(A, p.id)

\* the Assignments of a sale (Sale.purchase_assignments)
PurchaseAssignments(A, sid) == {a \in A : a.sale_id = sid}

\* (variant for C1's sensitivity check: ORDER BY purchase_date DESC)
OrderNewestFirst(p, q) ==
    \/ p.purchase_date > q.purchase_date
    \/ p.purchase_date = q.purchase_date /\ p.id > q.id

\* (variant for C22's sensitivity check: rows of equal date come newest id first)
OrderTiesNewestId(p, q) ==
    \/ p.purchase_date < q.purchase_date
    \/ p.purchase_date = q.purchase_date /\ p.id > q.id

\* ORDER BY purchase_date ASC; rows of equal date come in rowid order
OrderBefore(p, q) ==
    \/ p.purchase_date < q.purchase_date
    \/ p.purchase_date = q.purchase_date /\ p.id < q.id

RECURSIVE SortPurchases(_)
SortPurchases(S) ==
    IF S = {} THEN <<>>
    ELSE LET first == CHOOSE p \in S : \A q \in S \ {p} : OrderBefore(p, q)
         IN <<first>> \o SortPurchases(S \ {first})

\* (variant for C19's sensitivity check: the query filters by owner only)
QueryPurchasesAnyTicker(P, A, user_id, ticker) ==
    LET rows == SortPurchases({p \in P : p.user_id = user_id})
    IN [i \in 1..Len(rows) |->
            [id |-> rows[i].id,
             purchase_date |-> rows[i].purchase_date,
             price_at_purchase |-> rows[i].price_at_purchase,
             shares_remaining |-> SharesRemaining(rows[i], A)]]

\* Purchase.query.filter_by(user_id, ticker).order_by(purchase_date.asc()).all()
\* with each lot's sale_assignments loaded (shares_remaining as read)
QueryPurchases(P, A, user_id, ticker) ==
    LET rows == SortPurchases({p \in P : p.user_id = user_id /\ p.ticker = ticker})
    IN [i \in 1..Len(rows) |->
            [id |-> rows[i].id,
             purchase_date |-> rows[i].purchase_date,
             price_at_purchase |-> rows[i].price_at_purchase,
             shares_remaining |-> SharesRemaining(rows[i], A)]]

RECURSIVE SumRemaining(_, _)
SumRemaining(rows, i) ==
    IF i > Len(rows) THEN 0
    ELSE rows[i].shares_remaining + SumRemaining(rows, i + 1)

\* total_available = sum(p.shares_remaining for p in purchases)
TotalAvailable(rows) == SumRemaining(rows, 1)

\* (variant for C5's sensitivity check: a check twice as lenient)
InsufficientCheckLenient(total_available, shares_sold) ==
    total_available < shares_sold - TOLERANCE - TOLERANCE

\* the availability check of create_sale_with_fifo
InsufficientCheck(total_available, shares_sold) ==
    total_available < shares_sold - TOLERANCE

\* (variant for C3's sensitivity check: a lot gives whatever is asked of it)
SharesToAssignUncapped(remaining_to_sell, available_from_purchase) ==
    remaining_to_sell

\* shares_to_assign = min(remaining_to_sell, available_from_purchase)
SharesToAssign(remaining_to_sell, available_from_purchase) ==
    Min(remaining_to_sell, available_from_purchase)

\* the FIFO assignment loop of create_sale_with_fifo
RECURSIVE FifoLoop(_, _, _, _, _)
FifoLoop(rows, i, remaining_to_sell, price_at_sale, acc) ==
    IF i > Len(rows) \/ remaining_to_sell <= TOLERANCE
    THEN [assigned |-> acc, remaining_to_sell |-> remaining_to_sell]
    ELSE LET available_from_purchase == rows[i].shares_remaining
         IN IF available_from_purchase <= TOLERANCE
            THEN FifoLoop(rows, i + 1, remaining_to_sell, price_at_sale, acc)
            ELSE LET shares_to_assign ==
                         SharesToAssign(remaining_to_sell, available_from_purchase)
                     cost_basis == shares_to_assign * rows[i].price_at_purchase
                     proceeds == shares_to_assign * price_at_sale
                 IN FifoLoop(rows, i + 1, remaining_to_sell - shares_to_assign,
                             price_at_sale,
                             Append(acc, [purchase_id |-> rows[i].id,
                                          shares_assigned |-> shares_to_assign,
                                          cost_basis |-> cost_basis,
                                          proceeds |-> proceeds,
                                          realized_gain_loss |-> proceeds - cost_basis]))

\* (variant for C15's sensitivity check: cost basis and proceeds exchanged)
AssignmentRowsSwapped(sale_id, assigned) ==
    {[purchase_id |-> assigned[i].purchase_id,
      sale_id |-> sale_id,
      shares_assigned |-> assigned[i].shares_assigned,
      cost_basis |-> assigned[i].proceeds,
      proceeds |-> assigned[i].cost_basis,
      realized_gain_loss |-> assigned[i].realized_gain_loss] : i \in 1..Len(assigned)}

\* the rows the session inserts for the walk's assignments; a row is known by
\* its purchase_id and sale_id (the surrogate id column is read by no handler)
AssignmentRows(sale_id, assigned) ==
    {[purchase_id |-> assigned[i].purchase_id,
      sale_id |-> sale_id,
      shares_assigned |-> assigned[i].shares_assigned,
      cost_basis |-> assigned[i].cost_basis,
      proceeds |-> assigned[i].proceeds,
      realized_gain_loss |-> assigned[i].realized_gain_loss] : i \in 1..Len(assigned)}

\* (variant for C21's sensitivity check: the preview takes from every lot
\* that has anything left, the lots within the tolerance too)
RECURSIVE PreviewLoopNoSkip(_, _, _, _)
PreviewLoopNoSkip(rows, i, remaining_to_sell, acc) ==
    IF i > Len(rows) \/ remaining_to_sell <= TOLERANCE
    THEN acc
    ELSE LET available_from_purchase == rows[i].shares_remaining
         IN IF available_from_purchase <= 0
            THEN PreviewLoopNoSkip(rows, i + 1, remaining_to_sell, acc)
            ELSE LET shares_to_assign == Min(remaining_to_sell, available_from_purchase)
                 IN PreviewLoopNoSkip(rows, i + 1, remaining_to_sell - shares_to_assign,
                                Append(acc, [purchase_id |-> rows[i].id,
                                             purchase_date |-> rows[i].purchase_date,
                                             price_at_purchase |-> rows[i].price_at_purchase,
                                             shares_available |-> available_from_purchase,
                                             shares_to_assign |-> shares_to_assign,
                                             cost_basis |-> shares_to_assign
                                                            * rows[i].price_at_purchase]))

\* the preview loop of preview_fifo_assignment
RECURSIVE PreviewLoop(_, _, _, _)
PreviewLoop(rows, i, remaining_to_sell, acc) ==
    IF i > Len(rows) \/ remaining_to_sell <= TOLERANCE
    THEN acc
    ELSE LET available_from_purchase == rows[i].shares_remaining
         IN IF available_from_purchase <= TOLERANCE
            THEN PreviewLoop(rows, i + 1, remaining_to_sell, acc)
            ELSE LET shares_to_assign == Min(remaining_to_sell, available_from_purchase)
                 IN PreviewLoop(rows, i + 1, remaining_to_sell - shares_to_assign,
                                Append(acc, [purchase_id |-> rows[i].id,
                                             purchase_date |-> rows[i].purchase_date,
                                             price_at_purchase |-> rows[i].price_at_purchase,
                                             shares_available |-> available_from_purchase,
                                             shares_to_assign |-> shares_to_assign,
                                             cost_basis |-> shares_to_assign
                                                            * rows[i].price_at_purchase]))

RECURSIVE SumCostBasis(_, _)
SumCostBasis(items, i) ==
    IF i > Len(items) THEN 0 ELSE items[i].cost_basis + SumCostBasis(items, i + 1)

\* preview_fifo_assignment(user_id, ticker, shares_to_sell), shares_to_sell > 0;
\* the record returned has the keys of the dict the code returns
PreviewFifoAssignment(P, A, user_id, ticker, shares_to_sell) ==
    LET rows == QueryPurchases(P, A, user_id, ticker)
    IN IF Len(rows) = 0
       THEN [assignments |-> <<>>, total_cost_basis |-> 0, total_available |-> 0,
             is_sufficient |-> FALSE, error |-> "No purchases found"]
       ELSE LET total_available == TotalAvailable(rows)
                is_sufficient == total_available >= shares_to_sell - TOLERANCE
                items == PreviewLoop(rows, 1, shares_to_sell, <<>>)
            IN [assignments |-> items,
                total_cost_basis |-> SumCostBasis(items, 1),
                total_available |-> total_available,
                is_sufficient |-> is_sufficient,
                shares_remaining_after |->
                    IF is_sufficient THEN total_available - shares_to_sell ELSE None]

NoReq == [user_id |-> 0, ticker |-> "", sale_date |-> 0, shares_sold |-> 0,
          price_at_sale |-> 0, reinvest_ticker |-> "", reinvest_amount |-> 0]

NoSale == [id |-> 0, user_id |-> 0, ticker |-> "", sale_date |-> 0,
           shares_sold |-> 0, price_at_sale |-> 0, total_proceeds |-> 0,
           reinvestment_purchase_id |-> None, reinvested_amount |-> None,
           cash_retained |-> None]

NoResult == [assignments |-> <<>>, total_cost_basis |-> 0, total_available |-> 0,
             is_sufficient |-> FALSE, error |-> "n/a", shares_remaining_after |-> None]

\* a response: the handler, the HTTP status, the exception behind an error and
\* where it was raised, whether the request had committed a change by then, and
\* for /sales and /sales/preview the arguments it was about
Response(op, code, exc, site, w, sale_id, user_id, ticker, shares, result) ==
    [op |-> op, code |-> code, exc |-> exc, site |-> site, wrote |-> w,
     sale_id |-> sale_id, user_id |-> user_id, ticker |-> ticker,
     shares_sold |-> shares, result |-> result]

NoResp == Response("", 0, "", "", FALSE, 0, 0, "", 0, NoResult)

Init ==
    /\ purchases = {}
    /\ sales = {}
    /\ assignments = {}
    /\ pc = [w \in Workers |-> "idle"]
    /\ req = [w \in Workers |-> NoReq]
    /\ snap = [w \in Workers |-> <<>>]
    /\ txSale = [w \in Workers |-> NoSale]
    /\ dbLock = 0
    /\ resp = NoResp
    /\ price_cache = {}

\* ------------------------------------------------------------ database
\* a session writes when no other session holds the database's write lock
CanWrite == dbLock = 0

\* a handler runs once the previous response has gone out
Ready == resp = NoResp

\* invalidate_price_cache(): _price_cache.clear()
InvalidatePriceCache(cache) == {}

\* the response leaves the server
Deliver ==
    /\ resp # NoResp
    /\ resp' = NoResp
    /\ UNCHANGED <<purchases, sales, assignments, pc, req, snap, txSale, dbLock>>
    /\ UNCHANGED price_cache

\* validate_ticker (an external collaborator): the known symbols
ValidateTicker(t) == t \in Tickers

\* ------------------------------------------------- POST /purchases
NewPurchase(P, user_id, ticker, purchase_date, amount, shares_bought, price) ==
    [id |-> NextId(P), user_id |-> user_id, ticker |-> ticker,
     purchase_date |-> purchase_date, amount |-> amount,
     shares_bought |-> shares_bought, price_at_purchase |-> price]

PlainResponse(op, code, site, w) ==
    Response(op, code, "", site, w, 0, 0, "", 0, NoResult)

\* create_purchase, detailed mode: quantity and price_per_share are given
CreatePurchaseDetailed(I) ==
    /\ Ready
    /\ \E in \in I.detailed :
          LET quantity == in[4]
              price_per_share == in[5]
          IN IF quantity <= 0 \/ price_per_share <= 0
             THEN /\ resp' = PlainResponse("create_purchase", 400, "validate", FALSE)
                  /\ UNCHANGED purchases
             ELSE /\ CanWrite
                  /\ NextId(purchases) <= MaxPurchases
                  /\ purchases' = purchases \cup
                         {NewPurchase(purchases, in[1], in[2], in[3],
                                      quantity * price_per_share, quantity,
                                      price_per_share)}
                  /\ resp' = PlainResponse("create_purchase", 201, "", TRUE)
    /\ UNCHANGED <<sales, assignments, pc, req, snap, txSale, dbLock>>
    /\ price_cache' = IF resp'.code = 201 THEN InvalidatePriceCache(price_cache)
                     ELSE price_cache

\* create_purchase, quick mode: the amount is given, the price is the oracle's
CreatePurchaseQuick(I) ==
    /\ Ready
    /\ \E in \in I.quick, price \in OraclePrices :
          LET amount == in[4]
          IN IF amount <= 0
             THEN /\ resp' = PlainResponse("create_purchase", 400, "validate", FALSE)
                  /\ UNCHANGED purchases
             ELSE IF price = 0
             THEN /\ resp' = PlainResponse("create_purchase", 500, "oracle", FALSE)
                  /\ UNCHANGED purchases
             ELSE /\ CanWrite
                  /\ NextId(purchases) <= MaxPurchases
                  /\ amount % price = 0
                  /\ purchases' = purchases \cup
                         {NewPurchase(purchases, in[1], in[2], in[3], amount,
                                      amount \div price, price)}
                  /\ resp' = PlainResponse("create_purchase", 201, "", TRUE)
    /\ UNCHANGED <<sales, assignments, pc, req, snap, txSale, dbLock>>
    /\ price_cache' = IF resp'.code = 201 THEN InvalidatePriceCache(price_cache)
                     ELSE price_cache

\* ------------------------------------------- DELETE /purchases/<id>
\* db.session.delete(purchase): its sale_assignments go with it (cascade
\* all, delete-orphan); a Sale that names it as reinvestment_purchase keeps
\* its row and has the foreign key set to NULL
CascadeDeletePurchase(A, pid) == {a \in A : a.purchase_id # pid}

NullifyReinvestment(S, pid) ==
    {IF s.reinvestment_purchase_id = pid
     THEN [s EXCEPT !.reinvestment_purchase_id = None] ELSE s : s \in S}

DeletePurchase ==
    /\ Ready
    /\ \E user_id \in Owners, id \in 1..MaxPurchases :
          LET found == {p \in purchases : p.id = id /\ p.user_id = user_id}
          IN IF found = {}
             THEN /\ resp' = PlainResponse("delete_purchase", 404, "validate", FALSE)
                  /\ UNCHANGED <<purchases, sales, assignments>>
             ELSE /\ CanWrite
                  /\ purchases' = purchases \ found
                  /\ assignments' = CascadeDeletePurchase(assignments, id)
                  /\ sales' = NullifyReinvestment(sales, id)
                  /\ resp' = PlainResponse("delete_purchase", 200, "", TRUE)
    /\ UNCHANGED <<pc, req, snap, txSale, dbLock>>
    /\ price_cache' = IF resp'.code = 200 THEN InvalidatePriceCache(price_cache)
                     ELSE price_cache

\* ------------------------------- POST /test/auth/clear-purchases
\* Purchase.query.filter_by(user_id=...).delete(): one DELETE statement on the
\* purchases table; the session's cascades do not run, the database enforces
\* no foreign key, so assignments and sales stay as they are
ClearTestPurchases ==
    /\ Ready
    /\ CanWrite
    /\ \E user_id \in Owners :
          purchases' = {p \in purchases : p.user_id # user_id}
    /\ resp' = PlainResponse("clear_test_purchases", 200, "", TRUE)
    /\ UNCHANGED <<sales, assignments, pc, req, snap, txSale, dbLock>>
    /\ UNCHANGED price_cache

\* ------------------------------------------ POST /guest/migrate
\* the lists of lots a batch request carries
Batches(I) ==
    {<<>>} \cup {<<a>> : a \in I.detailed}
           \cup {<<a, b>> : a \in I.detailed, b \in I.detailed}

\* db.session.add for each entry of the list, in its order
RECURSIVE AddLots(_, _, _, _)
AddLots(P, user_id, batch, i) ==
    IF i > Len(batch) THEN P
    ELSE AddLots(P \cup {NewPurchase(P, user_id, batch[i][2], batch[i][3],
                                     batch[i][4] * batch[i][5], batch[i][4],
                                     batch[i][5])},
                 user_id, batch, i + 1)

\* migrate_guest_purchases: the lots of the list become the user's, in one
\* commit; the handler returns without touching the price cache
MigrateGuestPurchases(I) ==
    /\ Ready
    /\ \E user_id \in Owners, batch \in Batches(I) :
          IF Len(batch) = 0
          THEN /\ resp' = PlainResponse("migrate_guest_purchases", 200, "", FALSE)
               /\ UNCHANGED purchases
          ELSE /\ CanWrite
               /\ NextId(purchases) + Len(batch) - 1 <= MaxPurchases
               /\ purchases' = AddLots(purchases, user_id, batch, 1)
               /\ resp' = PlainResponse("migrate_guest_purchases", 200, "", TRUE)
    /\ UNCHANGED <<sales, assignments, pc, req, snap, txSale, dbLock, price_cache>>

\* ------------------------------------------ POST /uploads/pdf/confirm
\* the trades of the list that pass validation
RECURSIVE ValidTrades(_, _)
ValidTrades(batch, i) ==
    IF i > Len(batch) THEN <<>>
    ELSE (IF batch[i][4] > 0 /\ batch[i][5] > 0 THEN <<batch[i]>> ELSE <<>>)
         \o ValidTrades(batch, i + 1)

\* confirm_trades: the valid trades become lots in one commit, and the price
\* cache is cleared after it
ConfirmTrades(I) ==
    /\ Ready
    /\ \E user_id \in Owners, batch \in Batches(I) \ {<<>>} :
          LET saved == ValidTrades(batch, 1)
          IN IF Len(saved) = 0
             THEN /\ resp' = PlainResponse("confirm_trades", 207, "", FALSE)
                  /\ UNCHANGED <<purchases, price_cache>>
             ELSE /\ CanWrite
                  /\ NextId(purchases) + Len(saved) - 1 <= MaxPurchases
                  /\ purchases' = AddLots(purchases, user_id, saved, 1)
                  /\ price_cache' = InvalidatePriceCache(price_cache)
                  /\ resp' = PlainResponse("confirm_trades",
                                 IF Len(saved) = Len(batch) THEN 200 ELSE 207,
                                 "", TRUE)
    /\ UNCHANGED <<sales, assignments, pc, req, snap, txSale, dbLock>>

\* (variant for C14's sensitivity check: a delete without cascade)
CascadeDeleteNone(A, sid) == A

\* (variant for C7's sensitivity check: the delete takes every assignment)
CascadeDeleteAll(A, sid) == {}

\* ----------------------------------------------- DELETE /sales/<id>
\* db.session.delete(sale): its purchase_assignments go with it
CascadeDeleteSale(A, sid) == {a \in A : a.sale_id # sid}

DeleteSale ==
    /\ Ready
    /\ \E user_id \in Owners, id \in 1..MaxSales :
          LET found == {s \in sales : s.id = id /\ s.user_id = user_id}
          IN IF found = {}
             THEN /\ resp' = PlainResponse("delete_sale", 404, "validate", FALSE)
                  /\ UNCHANGED <<sales, assignments>>
             ELSE /\ CanWrite
                  /\ sales' = sales \ found
                  /\ assignments' = CascadeDeleteSale(assignments, id)
                  /\ resp' = PlainResponse("delete_sale", 200, "", TRUE)
    /\ UNCHANGED <<purchases, pc, req, snap, txSale, dbLock>>
    /\ price_cache' = IF resp'.code = 200 THEN InvalidatePriceCache(price_cache)
                     ELSE price_cache

\* (variant for C10's sensitivity check: a preview that saves what it shows)
PreviewSalePersisting(I) ==
    /\ resp = NoResp
    /\ \E in \in I.preview :
          LET user_id == in[1][1]
              ticker == in[1][2]
              shares_sold == in[2]
              result == PreviewFifoAssignment(purchases, assignments, user_id,
                                              ticker, shares_sold)
          IN /\ shares_sold > 0
             /\ resp' = Response("preview_sale", 200, "", "", FALSE,
                                 0, user_id, ticker, shares_sold, result)
             /\ assignments' = assignments \cup
                    {[purchase_id |-> result.assignments[i].purchase_id,
                      sale_id |-> 0,
                      shares_assigned |-> result.assignments[i].shares_to_assign,
                      cost_basis |-> result.assignments[i].cost_basis,
                      proceeds |-> 0,
                      realized_gain_loss |-> 0] :
                         i \in 1..Len(result.assignments)}
    /\ UNCHANGED <<purchases, sales, pc, req, snap, txSale, dbLock>>
    /\ UNCHANGED price_cache

\* ------------------------------------------------ GET /sales/preview
PreviewSale(I) ==
    /\ Ready
    /\ \E in \in I.preview :
          LET user_id == in[1][1]
              ticker == in[1][2]
              shares_sold == in[2]
          IN IF shares_sold <= 0
             THEN resp' = Response("preview_sale", 400, "", "validate", FALSE,
                                   0, user_id, ticker, shares_sold, NoResult)
             ELSE resp' = Response("preview_sale", 200, "", "", FALSE,
                                   0, user_id, ticker, shares_sold,
                                   PreviewFifoAssignment(purchases, assignments,
                                                         user_id, ticker, shares_sold))
    /\ UNCHANGED <<purchases, sales, assignments, pc, req, snap, txSale, dbLock>>
    /\ UNCHANGED price_cache

\* ------------------------------------------------------ POST /sales
SaleRequest(in) ==
    [user_id |-> in[1][1], ticker |-> in[1][2], sale_date |-> in[2],
     shares_sold |-> in[3], price_at_sale |-> in[4],
     reinvest_ticker |-> in[5][1], reinvest_amount |-> in[5][2]]

\* if reinvest_ticker and reinvest_amount:
WantsReinvestment(r) == r.reinvest_ticker # "" /\ r.reinvest_amount # 0

NewSale(S, r) ==
    [id |-> NextId(S), user_id |-> r.user_id, ticker |-> r.ticker,
     sale_date |-> r.sale_date, shares_sold |-> r.shares_sold,
     price_at_sale |-> r.price_at_sale,
     total_proceeds |-> r.shares_sold * r.price_at_sale,
     reinvestment_purchase_id |-> None, reinvested_amount |-> None,
     cash_retained |-> None]

SaleResponse(code, exc, site, w, sale_id, r) ==
    Response("create_sale", code, exc, site, w, sale_id, r.user_id, r.ticker,
             r.shares_sold, NoResult)

\* create_sale up to the availability check of create_sale_with_fifo: the
\* validation, the query of the lots, the check.  Nothing is written.
SaleCheck(P, A, r) ==
    LET rows == QueryPurchases(P, A, r.user_id, r.ticker)
    IN IF r.shares_sold <= 0 \/ r.price_at_sale <= 0
       THEN [site |-> "validate", exc |-> "", rows |-> rows]
       ELSE IF Len(rows) = 0
       THEN [site |-> "check", exc |-> "InsufficientSharesError", rows |-> rows]
       ELSE IF InsufficientCheck(TotalAvailable(rows), r.shares_sold)
       THEN [site |-> "check", exc |-> "InsufficientSharesError", rows |-> rows]
       ELSE [site |-> "", exc |-> "", rows |-> rows]

\* the FIFO walk of a request over the lots as loaded
SaleWalk(rows, r) == FifoLoop(rows, 1, r.shares_sold, r.price_at_sale, <<>>)

\* (variant for C2's sensitivity check: no final validation)
WalkNeverFails(walk) == FALSE

\* (variant for C28's sensitivity check: a final validation twice as lax)
WalkFailedLax(walk) == walk.remaining_to_sell > 2 * TOLERANCE

\* the final validation: the walk left shares unassigned
WalkFailed(walk) == walk.remaining_to_sell > TOLERANCE

\* what db.session.commit() makes visible of the Sale
CommitSale(S, sale) == S \cup {sale}

\* (variant for C13's sensitivity check: the lot is not looked up)
LinkWithoutLotLookup(S, P, sale_id, purchase_id, reinvested_amount) ==
    IF \/ {s \in S : s.id = sale_id} = {}
       \/ reinvested_amount <= 0
       \/ \E s \in S : s.id = sale_id /\ reinvested_amount > s.total_proceeds
    THEN [ok |-> FALSE, sales |-> S]
    ELSE [ok |-> TRUE,
          sales |-> {IF s.id = sale_id
                     THEN [s EXCEPT !.reinvestment_purchase_id = purchase_id,
                                    !.reinvested_amount = reinvested_amount,
                                    !.cash_retained =
                                        s.total_proceeds - reinvested_amount]
                     ELSE s : s \in S}]

\* (variant for C12's sensitivity check: no comparison with the proceeds)
LinkWithoutProceedsCheck(S, P, sale_id, purchase_id, reinvested_amount) ==
    IF \/ {s \in S : s.id = sale_id} = {}
       \/ {p \in P : p.id = purchase_id} = {}
       \/ reinvested_amount <= 0
    THEN [ok |-> FALSE, sales |-> S]
    ELSE [ok |-> TRUE,
          sales |-> {IF s.id = sale_id
                     THEN [s EXCEPT !.reinvestment_purchase_id = purchase_id,
                                    !.reinvested_amount = reinvested_amount,
                                    !.cash_retained =
                                        s.total_proceeds - reinvested_amount]
                     ELSE s : s \in S}]

\* link_sale_to_reinvestment(sale_id, purchase_id, reinvested_amount) on the
\* rows S and P the session sees: the error raised, or the sales as updated
LinkSaleToReinvestment(S, P, sale_id, purchase_id, reinvested_amount) ==
    LET sale == {s \in S : s.id = sale_id}
        purchase == {p \in P : p.id = purchase_id}
    IN IF sale = {} THEN [ok |-> FALSE, sales |-> S]
       ELSE IF purchase = {} THEN [ok |-> FALSE, sales |-> S]
       ELSE IF reinvested_amount <= 0 THEN [ok |-> FALSE, sales |-> S]
       ELSE IF \E s \in sale : reinvested_amount > s.total_proceeds
       THEN [ok |-> FALSE, sales |-> S]
       ELSE [ok |-> TRUE,
             sales |-> {IF s.id = sale_id
                        THEN [s EXCEPT !.reinvestment_purchase_id = purchase_id,
                                       !.reinvested_amount = reinvested_amount,
                                       !.cash_retained =
                                           s.total_proceeds - reinvested_amount]
                        ELSE s : s \in S}]

\* a call of link_sale_to_reinvestment by itself: it raises ValueError, or
\* updates the Sale and commits.  The response names the arguments.
LinkArgs(purchase_id, reinvested_amount) ==
    [purchase_id |-> purchase_id, reinvested_amount |-> reinvested_amount]

LinkReinvestment(I) ==
    /\ Ready
    /\ \E sale_id \in 1..MaxSales, purchase_id \in 1..MaxPurchases,
          reinvested_amount \in I.link :
          LET link == LinkSaleToReinvestment(sales, purchases, sale_id, purchase_id,
                                             reinvested_amount)
          IN IF link.ok
             THEN /\ CanWrite
                  /\ sales' = link.sales
                  /\ resp' = Response("link_reinvestment", 0, "", "", TRUE, sale_id,
                                      0, "", 0, LinkArgs(purchase_id, reinvested_amount))
             ELSE /\ resp' = Response("link_reinvestment", 0, "ValueError", "validate",
                                      FALSE, sale_id, 0, "", 0,
                                      LinkArgs(purchase_id, reinvested_amount))
                  /\ UNCHANGED sales
    /\ UNCHANGED <<purchases, assignments, pc, req, snap, txSale, dbLock>>
    /\ UNCHANGED price_cache

\* the reinvestment part of create_sale, run after create_sale_with_fifo has
\* committed sale sid: validation, the oracle's price, the new lot, the link.
\* The status answered and the purchases and sales it leaves committed.
Reinvest(P, S, sid, r, price) ==
    LET cur == {s \in S : s.id = sid}
        Fail(code, exc) == [code |-> code, exc |-> exc, purchases |-> P, sales |-> S]
    IN IF r.reinvest_amount <= 0 THEN Fail(400, "")
       ELSE IF cur = {} THEN Fail(500, "ObjectDeletedError")
       ELSE IF \E s \in cur : r.reinvest_amount > s.total_proceeds THEN Fail(400, "")
       ELSE IF ~ValidateTicker(r.reinvest_ticker) THEN Fail(400, "")
       ELSE IF price = 0 THEN Fail(500, "")
       ELSE LET reinvestment_purchase ==
                    NewPurchase(P, r.user_id, r.reinvest_ticker, r.sale_date,
                                r.reinvest_amount, r.reinvest_amount \div price, price)
                link == LinkSaleToReinvestment(S, P \cup {reinvestment_purchase}, sid,
                                               reinvestment_purchase.id,
                                               r.reinvest_amount)
            IN IF link.ok
               THEN [code |-> 201, exc |-> "",
                     purchases |-> P \cup {reinvestment_purchase},
                     sales |-> link.sales]
               ELSE Fail(400, "ValueError")

\* the oracle's answers the model follows: a price that divides the amount
OracleAnswers(r) == {price \in OraclePrices : price = 0 \/ r.reinvest_amount % price = 0}

\* create_sale, the whole request with no other request in between
CreateSale(I) ==
    /\ Ready
    /\ \E in \in I.sale :
          LET r == SaleRequest(in)
              chk == SaleCheck(purchases, assignments, r)
              sale == NewSale(sales, r)
              walk == SaleWalk(chk.rows, r)
          IN IF chk.site # ""
             THEN /\ resp' = SaleResponse(400, chk.exc, chk.site, FALSE, 0, r)
                  /\ UNCHANGED <<purchases, sales, assignments>>
             ELSE /\ CanWrite
                  /\ NextId(sales) <= MaxSales
                  /\ WantsReinvestment(r) => NextId(purchases) <= MaxPurchases
                  /\ IF WalkFailed(walk)
                     THEN /\ resp' = SaleResponse(400, "InsufficientSharesError",
                                                  "walk", FALSE, 0, r)
                          /\ UNCHANGED <<purchases, sales, assignments>>
                     ELSE /\ assignments' = assignments \cup
                                 AssignmentRows(sale.id, walk.assigned)
                          /\ IF WantsReinvestment(r)
                             THEN \E price \in OracleAnswers(r) :
                                    LET re == Reinvest(purchases,
                                                       CommitSale(sales, sale),
                                                       sale.id, r, price)
                                    IN /\ purchases' = re.purchases
                                       /\ sales' = re.sales
                                       /\ resp' = SaleResponse(re.code, re.exc,
                                                     "reinvest", TRUE, sale.id, r)
                             ELSE /\ sales' = CommitSale(sales, sale)
                                  /\ resp' = SaleResponse(201, "", "", TRUE, sale.id, r)
                                  /\ UNCHANGED purchases
    /\ UNCHANGED <<pc, req, snap, txSale, dbLock>>
    /\ price_cache' = IF resp'.code = 201 THEN InvalidatePriceCache(price_cache)
                     ELSE price_cache

\* -- the same request step by step, other sessions running in between --
\* the requests that have passed the check and not yet answered
InFlight == Cardinality({v \in Workers : pc[v] # "idle"})

SaleBegin(w, I) ==
    /\ Ready
    /\ pc[w] = "idle"
    /\ \A v \in Workers : v < w => pc[v] # "idle"
    /\ \E in \in I.sale :
          LET r == SaleRequest(in)
              chk == SaleCheck(purchases, assignments, r)
          IN IF chk.site # ""
             THEN /\ resp' = SaleResponse(400, chk.exc, chk.site, FALSE, 0, r)
                  /\ UNCHANGED <<pc, req, snap>>
             ELSE /\ NextId(sales) + InFlight <= MaxSales
                  /\ ~WantsReinvestment(r)
                  /\ pc' = [pc EXCEPT ![w] = "sale_checked"]
                  /\ req' = [req EXCEPT ![w] = r]
                  /\ snap' = [snap EXCEPT ![w] = chk.rows]
                  /\ UNCHANGED resp
    /\ UNCHANGED <<purchases, sales, assignments, txSale, dbLock>>
    /\ UNCHANGED price_cache

\* (variant for C6's sensitivity check: a flush that other sessions see)
SaleFlushVisible(w) ==
    /\ pc[w] = "sale_checked"
    /\ dbLock = 0
    /\ dbLock' = w
    /\ txSale' = [txSale EXCEPT ![w] = NewSale(sales, req[w])]
    /\ sales' = sales \cup {NewSale(sales, req[w])}
    /\ pc' = [pc EXCEPT ![w] = "sale_flushed"]
    /\ UNCHANGED <<purchases, assignments, req, snap, resp>>
    /\ UNCHANGED price_cache

\* db.session.add(sale); db.session.flush(): the INSERT opens the write
\* transaction; the row gets its id and is not visible to other sessions
SaleFlush(w) ==
    /\ pc[w] = "sale_checked"
    /\ CanWrite
    /\ dbLock' = w
    /\ txSale' = [txSale EXCEPT ![w] = NewSale(sales, req[w])]
    /\ pc' = [pc EXCEPT ![w] = "sale_flushed"]
    /\ UNCHANGED <<purchases, sales, assignments, req, snap, resp>>
    /\ UNCHANGED price_cache

\* the FIFO walk over the lots as loaded, then rollback or commit, and the
\* route's answer to a request that asks for no reinvestment
SaleFinish(w) ==
    /\ Ready
    /\ pc[w] = "sale_flushed"
    /\ LET walk == SaleWalk(snap[w], req[w])
       IN IF WalkFailed(walk)
          THEN /\ resp' = SaleResponse(400, "InsufficientSharesError", "walk",
                                       FALSE, 0, req[w])
               /\ UNCHANGED <<sales, assignments>>
          ELSE /\ sales' = CommitSale(sales, txSale[w])
               /\ assignments' = assignments \cup
                      AssignmentRows(txSale[w].id, walk.assigned)
               /\ resp' = SaleResponse(201, "", "", TRUE, txSale[w].id, req[w])
    /\ pc' = [pc EXCEPT ![w] = "idle"]
    /\ req' = [req EXCEPT ![w] = NoReq]
    /\ txSale' = [txSale EXCEPT ![w] = NoSale]
    /\ snap' = [snap EXCEPT ![w] = <<>>]
    /\ dbLock' = 0
    /\ UNCHANGED purchases
    /\ price_cache' = IF resp'.code = 201 THEN InvalidatePriceCache(price_cache)
                     ELSE price_cache

\* ------------------------------------------------------------- valuation
\* GET /purchases/<id>/comparison, /portfolio/summary and /portfolio/history
\* read the ledger and the price oracle and write nothing.  A float of these
\* handlers is kept to FP sub-units of the unit the ledger counts in; round()
\* takes it back to whole units.

\* seed_comparison_stocks: the default benchmarks (the first two of the six)
ComparisonStocks == <<"SPY", "AAPL">>

\* the symbols the oracle is asked about, and the trading days there are
OracleTickers == {"AAPL", "MSFT", "SPY"}
Dates == {1, 2}

\* sub-units a float keeps below the unit that round(x, 2) rounds to
FP == 100

\* the oracle: get_current_price(s), get_price_on_date, get_price_history;
\* 0 stands for None (and for a date absent from a history)
FullOracle ==
    [current |-> [t \in OracleTickers |-> IF t = "SPY" THEN 5 ELSE 3],
     on_date |-> [k \in OracleTickers \X Dates |->
                     IF k[1] = "SPY" THEN 3 ELSE IF k[2] = 1 THEN 1 ELSE 2],
     history |-> [k \in OracleTickers \X Dates |->
                     IF k[1] = "SPY" THEN (IF k[2] = 1 THEN 3 ELSE 5)
                     ELSE (IF k[2] = 1 THEN 2 ELSE 3)]]

\* the oracles the valuation requests meet: every quote there, or one missing
ValOracles ==
    {FullOracle,
     [FullOracle EXCEPT !.current["AAPL"] = 0],
     [FullOracle EXCEPT !.current["SPY"] = 0],
     [FullOracle EXCEPT !.on_date[<<"SPY", 1>>] = 0],
     [FullOracle EXCEPT !.history[<<"MSFT", 2>>] = 0],
     [FullOracle EXCEPT !.history[<<"SPY", 2>>] = 0]}

ValInputs ==
    [detailed |-> {<<1, "AAPL", 1, 4, 2>>, <<1, "MSFT", 2, 2, 2>>,
                   <<2, "AAPL", 1, 2, 2>>},
     quick    |-> {},
     sale     |-> {<<<<1, "AAPL">>, 2, 2, 3, <<"", 0>>>>},
     preview  |-> {}]

RECURSIVE SumFn(_, _)
SumFn(f, S) ==
    IF S = {} THEN 0
    ELSE LET x == CHOOSE y \in S : TRUE
         IN f[x] + SumFn(f, S \ {x})

\* the members of a set of dates in ascending order (sorted(...))
RECURSIVE SortedDates(_)
SortedDates(S) ==
    IF S = {} THEN <<>>
    ELSE LET d == CHOOSE x \in S : \A y \in S : x <= y
         IN <<d>> \o SortedDates(S \ {d})

\* a stored number as a float, and the product and quotient of two floats
ToFloat(x) == x * FP
FMul(a, b) == (a * b) \div FP
FDiv(a, b) == (a * FP) \div b

\* round(x, 2): to the nearest whole unit, a tie to the even one
Round(x) ==
    LET q == x \div FP
        r == x % FP
    IN IF 2 * r < FP THEN q
       ELSE IF 2 * r > FP THEN q + 1
       ELSE IF q % 2 = 0 THEN q ELSE q + 1

\* (gain_loss / invested * 100) if invested > 0 else 0
ReturnPct(gain_loss, invested) ==
    IF invested > 0 THEN FMul(FDiv(gain_loss, invested), ToFloat(100)) ELSE 0

\* (variant for C16's sensitivity check: the oracle is asked for every
\* benchmark, the lot's own ticker too)
CompPriceAtPurchaseAsked(o, comp_ticker, purchase) ==
    ToFloat(o.on_date[<<comp_ticker, purchase.purchase_date>>])

\* the price of a benchmark on the day of a purchase: the lot's own price
\* when the benchmark is the lot's ticker, else get_price_on_date
CompPriceAtPurchase(o, comp_ticker, purchase) ==
    IF comp_ticker = purchase.ticker
    THEN ToFloat(purchase.price_at_purchase)
    ELSE ToFloat(o.on_date[<<comp_ticker, purchase.purchase_date>>])

\* generate_monthly_dca_dates: the last trading day of each month from the
\* start date on; every day of Dates closes a month of its own
GenerateMonthlyDcaDates(start_date) == {d \in Dates : d >= start_date}

\* -- GET /purchases/<id>/comparison
\* the loop over the benchmarks: one entry for each whose two prices are known
RECURSIVE ComparisonAlternatives(_, _, _, _)
ComparisonAlternatives(o, purchase, actual_current_value, i) ==
    IF i > Len(ComparisonStocks) THEN <<>>
    ELSE LET ticker == ComparisonStocks[i]
             rest == ComparisonAlternatives(o, purchase, actual_current_value, i + 1)
             comp_price_at_purchase == CompPriceAtPurchase(o, ticker, purchase)
             comp_current_price == ToFloat(o.current[ticker])
             amount == ToFloat(purchase.amount)
             shares_would_have == FDiv(amount, comp_price_at_purchase)
             alt_current_value == FMul(shares_would_have, comp_current_price)
             alt_gain_loss == alt_current_value - amount
         IN IF comp_price_at_purchase = 0 \/ comp_current_price = 0 THEN rest
            ELSE <<[ticker |-> ticker,
                    price_at_purchase |-> Round(comp_price_at_purchase),
                    shares_would_have |-> Round(shares_would_have),
                    current_price |-> Round(comp_current_price),
                    current_value |-> Round(alt_current_value),
                    gain_loss |-> Round(alt_gain_loss),
                    return_pct |-> Round(ReturnPct(alt_gain_loss, amount)),
                    difference_vs_actual |->
                        Round(alt_current_value - actual_current_value)]>> \o rest

\* the value a benchmark would have on a day of the chart, None if unknown
ComparisonAltHistory(o, purchase, ticker, date) ==
    LET comp_price_at_purchase == CompPriceAtPurchase(o, ticker, purchase)
        comp_price == ToFloat(o.history[<<ticker, date>>])
    IN IF comp_price_at_purchase # 0 /\ comp_price # 0
       THEN Round(FMul(FDiv(ToFloat(purchase.amount), comp_price_at_purchase),
                       comp_price))
       ELSE None

PurchaseComparison(P, user_id, id, o) ==
    LET found == {p \in P : p.id = id /\ p.user_id = user_id}
    IN IF found = {} THEN [code |-> 404]
       ELSE LET purchase == CHOOSE p \in found : TRUE
                current_price == ToFloat(o.current[purchase.ticker])
                actual_current_value == FMul(ToFloat(purchase.shares_bought), current_price)
                actual_gain_loss == actual_current_value - ToFloat(purchase.amount)
                dates == SortedDates({d \in Dates : /\ d >= purchase.purchase_date
                                                    /\ o.history[<<purchase.ticker, d>>] # 0})
            IN IF current_price = 0 THEN [code |-> 500]
               ELSE [code |-> 200,
                     actual |-> [current_price |-> Round(current_price),
                                 current_value |-> Round(actual_current_value),
                                 gain_loss |-> Round(actual_gain_loss),
                                 return_pct |-> Round(ReturnPct(actual_gain_loss,
                                                        ToFloat(purchase.amount)))],
                     alternatives |-> ComparisonAlternatives(o, purchase,
                                                             actual_current_value, 1),
                     history |->
                        [dates |-> dates,
                         actual |-> [k \in 1..Len(dates) |->
                               Round(FMul(ToFloat(purchase.shares_bought),
                                          ToFloat(o.history[<<purchase.ticker, dates[k]>>])))],
                         alternatives |->
                            [i \in 1..Len(ComparisonStocks) |->
                               [k \in 1..Len(dates) |->
                                  ComparisonAltHistory(o, purchase, ComparisonStocks[i],
                                                       dates[k])]]]]

ValResponse(op, code, user_id, result) ==
    Response(op, code, "", "", FALSE, 0, user_id, "", 0, result)

\* get_current_price as the handler sees it: a cached ticker is answered
\* from the cache (with the quote cached earlier), the others by the oracle
CachedOracle(o, cache) ==
    [o EXCEPT !.current = [t \in OracleTickers |->
                              IF t \in cache THEN FullOracle.current[t]
                              ELSE o.current[t]]]

\* the tickers get_purchase_comparison looks up with get_current_price and
\* gets a price for; get_current_price caches each of them
ComparisonLookups(P, user_id, id, o) ==
    LET found == {p \in P : p.id = id /\ p.user_id = user_id}
    IN IF found = {} THEN {}
       ELSE LET purchase == CHOOSE p \in found : TRUE
            IN IF o.current[purchase.ticker] = 0 THEN {}
               ELSE {purchase.ticker} \cup
                    {ComparisonStocks[i] : i \in
                        {j \in 1..Len(ComparisonStocks) :
                            /\ CompPriceAtPurchase(o, ComparisonStocks[j], purchase) # 0
                            /\ o.current[ComparisonStocks[j]] # 0}}

GetPurchaseComparison ==
    /\ Ready
    /\ \E user_id \in Owners, id \in 1..MaxPurchases, o \in ValOracles :
          LET quoted == CachedOracle(o, price_cache)
              report == PurchaseComparison(purchases, user_id, id, quoted)
          IN /\ resp' = ValResponse("purchase_comparison", report.code, user_id,
                                    [oracle |-> quoted, purchase_id |-> id,
                                     report |-> report])
             /\ price_cache' = price_cache \cup
                                   ComparisonLookups(purchases, user_id, id, quoted)
    /\ UNCHANGED <<purchases, sales, assignments, pc, req, snap, txSale, dbLock>>

\* -- GET /portfolio/summary
\* what a benchmark bought with a lot's amount is worth now, 0 if a price
\* is unknown
AltLotValue(o, ticker, purchase) ==
    LET comp_price_at_purchase == CompPriceAtPurchase(o, ticker, purchase)
        comp_current_price == ToFloat(o.current[ticker])
    IN IF comp_price_at_purchase # 0 /\ comp_current_price # 0
       THEN FMul(FDiv(ToFloat(purchase.amount), comp_price_at_purchase),
                 comp_current_price)
       ELSE 0

\* calculate_monthly_dca_spy: None, or the entry of the monthly plan
CalculateMonthlyDcaSpy(lots, o) ==
    LET total_invested == ToFloat(SumFn([p \in lots |-> p.amount], lots))
        start_date == CHOOSE d \in {p.purchase_date : p \in lots} :
                          \A p \in lots : d <= p.purchase_date
        monthly_dates == GenerateMonthlyDcaDates(start_date)
        monthly_investment == FDiv(total_invested, ToFloat(Cardinality(monthly_dates)))
        spy_current_price == ToFloat(o.current["SPY"])
        priced == {d \in monthly_dates : o.on_date[<<"SPY", d>>] # 0}
        total_shares == SumFn([d \in priced |->
                                  FDiv(monthly_investment,
                                       ToFloat(o.on_date[<<"SPY", d>>]))], priced)
        current_value == FMul(total_shares, spy_current_price)
        gain_loss == current_value - total_invested
    IN IF lots = {} \/ monthly_dates = {} \/ spy_current_price = 0 THEN <<>>
       ELSE <<[ticker |-> "MONTHLY_DCA_SPY",
               total_invested |-> Round(total_invested),
               current_value |-> Round(current_value),
               gain_loss |-> Round(gain_loss),
               return_pct |-> Round(ReturnPct(gain_loss, total_invested))]>>

\* cost_basis_remaining: every lot's remaining shares at its purchase price
CostBasisRemaining(lots, A, o) ==
    SumFn([p \in lots |->
              FMul(ToFloat(SharesRemaining(p, A)), ToFloat(p.price_at_purchase))],
          lots)

PortfolioSummary(P, S, A, user_id, o) ==
    LET lots == {p \in P : p.user_id = user_id}
        sold == {s \in S : s.user_id = user_id}
        Zero == [total_invested |-> 0, current_value |-> 0, unrealized_gains |-> 0,
                 realized_gains |-> 0, cash_position |-> 0, gain_loss |-> 0,
                 return_pct |-> 0]
        total_invested == ToFloat(SumFn([p \in lots |-> p.amount], lots))
        booked == {a \in A : a.sale_id \in Ids(sold)}
        realized_gains == ToFloat(SumFn([a \in booked |-> a.realized_gain_loss], booked))
        cash_position ==
            ToFloat(SumFn([s \in sold |-> IF s.cash_retained = None THEN 0
                                          ELSE s.cash_retained], sold))
        priced == {p \in lots : o.current[p.ticker] # 0}
        current_holdings_value ==
            SumFn([p \in priced |-> FMul(ToFloat(SharesRemaining(p, A)),
                                         ToFloat(o.current[p.ticker]))], priced)
        unrealized_gains == current_holdings_value - CostBasisRemaining(lots, A, o)
        actual_current_value == current_holdings_value + cash_position
        actual_gain_loss == actual_current_value - total_invested
        Alternative(ticker) ==
            LET alt_current_value == SumFn([p \in lots |-> AltLotValue(o, ticker, p)], lots)
                alt_gain_loss == alt_current_value - total_invested
            IN [ticker |-> ticker,
                total_invested |-> Round(total_invested),
                current_value |-> Round(alt_current_value),
                gain_loss |-> Round(alt_gain_loss),
                return_pct |-> Round(ReturnPct(alt_gain_loss, total_invested))]
    IN IF lots = {} THEN [actual |-> Zero, alternatives |-> <<>>]
       ELSE [actual |-> [total_invested |-> Round(total_invested),
                         current_value |-> Round(actual_current_value),
                         unrealized_gains |-> Round(unrealized_gains),
                         realized_gains |-> Round(realized_gains),
                         cash_position |-> Round(cash_position),
                         gain_loss |-> Round(actual_gain_loss),
                         return_pct |-> Round(ReturnPct(actual_gain_loss, total_invested))],
             alternatives |->
                 [i \in 1..Len(ComparisonStocks) |-> Alternative(ComparisonStocks[i])]
                 \o CalculateMonthlyDcaSpy(lots, o)]

\* the tickers get_portfolio_summary fetches with get_current_prices and
\* gets a price for; get_current_prices caches each of them
SummaryLookups(P, user_id, o) ==
    LET held == {p.ticker : p \in {q \in P : q.user_id = user_id}}
    IN IF held = {} THEN {}
       ELSE {t \in held \cup {ComparisonStocks[i] : i \in 1..Len(ComparisonStocks)} :
                o.current[t] # 0}

GetPortfolioSummary ==
    /\ Ready
    /\ \E user_id \in Owners, o \in ValOracles :
          /\ resp' = ValResponse("portfolio_summary", 200, user_id,
                         [oracle |-> o,
                          report |-> PortfolioSummary(purchases, sales, assignments,
                                                      user_id, o)])
          /\ price_cache' = price_cache \cup SummaryLookups(purchases, user_id, o)
    /\ UNCHANGED <<purchases, sales, assignments, pc, req, snap, txSale, dbLock>>

\* -- GET /portfolio/history
\* shares of a lot sold on or before a date
SharesSoldByDate(S, A, purchase, date) ==
    LET upto == {a \in A : /\ a.purchase_id = purchase.id
                           /\ \E s \in S : s.id = a.sale_id /\ s.sale_date <= date}
    IN SumFn([a \in upto |-> a.shares_assigned], upto)

\* the actual portfolio on a date: the lots bought by then whose ticker has a
\* price that day and that have shares left that day
ActualValueOn(lots, S, A, o, date) ==
    LET counted == {p \in lots :
                      /\ p.purchase_date <= date
                      /\ o.history[<<p.ticker, date>>] # 0
                      /\ p.shares_bought - SharesSoldByDate(S, A, p, date) > 0}
    IN SumFn([p \in counted |->
                 FMul(ToFloat(p.shares_bought - SharesSoldByDate(S, A, p, date)),
                      ToFloat(o.history[<<p.ticker, date>>]))], counted)

\* a benchmark on a date: the lots bought by then whose benchmark shares are
\* known, at the benchmark's price that day if it has one
AltValueOn(lots, o, ticker, date) ==
    LET counted == {p \in lots :
                      /\ p.purchase_date <= date
                      /\ CompPriceAtPurchase(o, ticker, p) # 0
                      /\ FDiv(ToFloat(p.amount), CompPriceAtPurchase(o, ticker, p)) # 0
                      /\ o.history[<<ticker, date>>] # 0}
    IN SumFn([p \in counted |->
                 FMul(FDiv(ToFloat(p.amount), CompPriceAtPurchase(o, ticker, p)),
                      ToFloat(o.history[<<ticker, date>>]))], counted)

\* calculate_monthly_dca_spy_history
CalculateMonthlyDcaSpyHistory(lots, o, dates) ==
    LET total_invested == ToFloat(SumFn([p \in lots |-> p.amount], lots))
        start_date == CHOOSE d \in {p.purchase_date : p \in lots} :
                          \A p \in lots : d <= p.purchase_date
        all_monthly_dates == GenerateMonthlyDcaDates(start_date)
        monthly_investment ==
            FDiv(total_invested, ToFloat(Cardinality(all_monthly_dates)))
        bought == {d \in all_monthly_dates : o.history[<<"SPY", d>>] # 0}
        SharesUpTo(date) ==
            LET by == {d \in bought : d <= date}
            IN SumFn([d \in by |-> FDiv(monthly_investment,
                                        ToFloat(o.history[<<"SPY", d>>]))], by)
    IN IF lots = {} \/ all_monthly_dates = {}
       THEN [k \in 1..Len(dates) |-> None]
       ELSE [k \in 1..Len(dates) |->
               IF o.history[<<"SPY", dates[k]>>] # 0 /\ SharesUpTo(dates[k]) > 0
               THEN Round(FMul(SharesUpTo(dates[k]),
                               ToFloat(o.history[<<"SPY", dates[k]>>])))
               ELSE None]

\* first is actual_tickers[0]: list(set(...)) puts any held ticker first
PortfolioHistory(P, S, A, user_id, o, first) ==
    LET lots == {p \in P : p.user_id = user_id}
        Empty == [dates |-> <<>>, actual |-> <<>>, alternatives |-> <<>>]
        start_date == CHOOSE d \in {p.purchase_date : p \in lots} :
                          \A p \in lots : d <= p.purchase_date
        dates == SortedDates({d \in Dates : d >= start_date /\ o.history[<<first, d>>] # 0})
    IN IF lots = {} THEN Empty
       ELSE IF dates = <<>> THEN Empty
       ELSE [dates |-> dates,
             actual |-> [k \in 1..Len(dates) |->
                            Round(ActualValueOn(lots, S, A, o, dates[k]))],
             alternatives |->
                 [i \in 1..Len(ComparisonStocks) |->
                    [ticker |-> ComparisonStocks[i],
                     values |-> [k \in 1..Len(dates) |->
                        Round(AltValueOn(lots, o, ComparisonStocks[i], dates[k]))]]]
                 \o <<[ticker |-> "MONTHLY_DCA_SPY",
                       values |-> CalculateMonthlyDcaSpyHistory(lots, o, dates)]>>]

GetPortfolioHistory ==
    /\ Ready
    /\ \E user_id \in Owners, o \in ValOracles :
          LET held == {p.ticker : p \in {q \in purchases : q.user_id = user_id}}
          IN \E first \in (IF held = {} THEN {""} ELSE held) :
                resp' = ValResponse("portfolio_history", 200, user_id,
                            [oracle |-> o, first |-> first,
                             report |-> PortfolioHistory(purchases, sales, assignments,
                                                         user_id, o, first)])
    /\ UNCHANGED <<purchases, sales, assignments, pc, req, snap, txSale, dbLock>>
    /\ UNCHANGED price_cache

\* ---------------------------------------------------------- specifications
\* requests one after another, each run to its end (the synchronous model)
Next ==
    \/ CreatePurchaseDetailed(SeqInputs)
    \/ CreatePurchaseQuick(SeqInputs)
    \/ DeletePurchase
    \/ DeleteSale
    \/ PreviewSale(SeqInputs)
    \/ CreateSale(SeqInputs)
    \/ Deliver

Spec == Init /\ [][Next]_vars

\* POST /sales requests of several workers interleaved at their database
\* operations, with lot creations, sale deletions and previews running in
\* between (the requests of ConcInputs ask for no reinvestment)
NextConc ==
    \/ CreatePurchaseDetailed(ConcInputs)
    \/ DeleteSale
    \/ PreviewSale(ConcInputs)
    \/ \E w \in Workers : SaleBegin(w, ConcInputs)
    \/ \E w \in Workers : SaleFlush(w)
    \/ \E w \in Workers : SaleFinish(w)
    \/ Deliver

SpecConc == Init /\ [][NextConc]_vars

\* the synchronous model with link_sale_to_reinvestment callable by itself
NextLink ==
    \/ CreatePurchaseDetailed(LinkInputs)
    \/ DeletePurchase
    \/ DeleteSale
    \/ CreateSale(LinkInputs)
    \/ LinkReinvestment(LinkInputs)
    \/ Deliver

SpecLink == Init /\ [][NextLink]_vars

\* lots, sales and the three valuation requests, one after another
NextVal ==
    \/ CreatePurchaseDetailed(ValInputs)
    \/ CreateSale(ValInputs)
    \/ GetPurchaseComparison
    \/ GetPortfolioSummary
    \/ GetPortfolioHistory
    \/ Deliver

SpecVal == Init /\ [][NextVal]_vars

\* requests on several (owner, ticker) pairs: whole requests, and POST /sales
\* requests of the workers interleaved at their database operations
NextPar ==
    \/ CreatePurchaseDetailed(ParInputs)
    \/ PreviewSale(ParInputs)
    \/ CreateSale(ParInputs)
    \/ \E w \in Workers : SaleBegin(w, ParInputs)
    \/ \E w \in Workers : SaleFlush(w)
    \/ \E w \in Workers : SaleFinish(w)
    \/ Deliver

SpecPar == Init /\ [][NextPar]_vars

\* the synchronous model of a development build (ENABLE_TEST_AUTH), where the
\* test blueprint answers as well
NextDev ==
    \/ CreatePurchaseDetailed(SeqInputs)
    \/ DeletePurchase
    \/ DeleteSale
    \/ CreateSale(SeqInputs)
    \/ ClearTestPurchases
    \/ Deliver

SpecDev == Init /\ [][NextDev]_vars

\* every request that writes the ledger, and the two that fill the price cache
NextCache ==
    \/ CreatePurchaseDetailed(CacheInputs)
    \/ DeletePurchase
    \/ CreateSale(CacheInputs)
    \/ DeleteSale
    \/ ConfirmTrades(CacheInputs)
    \/ MigrateGuestPurchases(CacheInputs)
    \/ GetPurchaseComparison
    \/ GetPortfolioSummary
    \/ Deliver

SpecCache == Init /\ [][NextCache]_vars

\* ------------------------------------------------------------------ claims
Abs(x) == IF x < 0 THEN 0 - x ELSE x

\* the sales a step makes visible
NewSales == {s \in sales' : s.id \notin Ids(sales)}

\* the lots of a sale's owner and ticker, as they are before the step
LotsOf(s) == {p \in purchases : p.user_id = s.user_id /\ p.ticker = s.ticker}

AssignedFrom(A, sid, pid) == \E a \in A : a.sale_id = sid /\ a.purchase_id = pid

\* C1: FIFO order.  A sale draws on a lot only when every lot of the same
\* owner and ticker with an earlier purchase date is used up by it
\* (shares_remaining <= TOLERANCE after the sale); and a sale no larger than
\* what the oldest non-empty lot still holds draws on that lot only.
C1_FifoOrder ==
    [][\A s \in NewSales :
          /\ \A L1, L2 \in LotsOf(s) :
                (L1.purchase_date < L2.purchase_date
                   /\ AssignedFrom(assignments', s.id, L2.id))
                => SharesRemaining(L1, assignments') <= TOLERANCE
          /\ \A L \in LotsOf(s) :
                (/\ SharesRemaining(L, assignments) > 0
                 /\ \A M \in LotsOf(s) \ {L} :
                       SharesRemaining(M, assignments) > 0
                       => L.purchase_date < M.purchase_date
                 /\ s.shares_sold <= SharesRemaining(L, assignments))
                => \A a \in PurchaseAssignments(assignments', s.id) :
                       a.purchase_id = L.id]_vars

\* a sale that used up an older lot and went on into a newer one
C1_Witness ==
    \E s \in sales : \E L1, L2 \in purchases :
        /\ L1.purchase_date < L2.purchase_date
        /\ AssignedFrom(assignments, s.id, L1.id)
        /\ AssignedFrom(assignments, s.id, L2.id)
        /\ SharesRemaining(L1, assignments) = 0

SaleSumOk(S, A, sid) ==
    \A s \in S : s.id = sid =>
        Abs(s.shares_sold - SumAssigned(PurchaseAssignments(A, sid))) <= TOLERANCE

\* C2: conservation.  The Assignments of a sale that create_sale has just
\* committed add up to its shares_sold within TOLERANCE.
C2_Conservation ==
    [][\A s \in NewSales : SaleSumOk(sales', assignments', s.id)]_vars

\* a sale answered 201 whose assignments, on two lots, add up to shares_sold
C2_Witness ==
    /\ resp.op = "create_sale" /\ resp.code = 201
    /\ \E s \in sales :
          /\ s.id = resp.sale_id
          /\ Cardinality(PurchaseAssignments(assignments, s.id)) = 2
          /\ SumAssigned(PurchaseAssignments(assignments, s.id)) = s.shares_sold

C4_NoOvercommit ==
    \A p \in purchases : SharesSold(assignments, p.id) <= p.shares_bought

RECURSIVE SumBought(_)
SumBought(P) ==
    IF P = {} THEN 0
    ELSE LET p == CHOOSE x \in P : TRUE
         IN p.shares_bought + SumBought(P \ {p})

\* what the lots of an owner and ticker still hold, from the committed rows
TotalRemaining(P, A, user_id, ticker) ==
    LET lots == {p \in P : p.user_id = user_id /\ p.ticker = ticker}
    IN SumBought(lots) - SumAssigned({a \in A : a.purchase_id \in Ids(lots)})

\* a step that ends with the answer to a request of handler op
Answers(op) == resp' # NoResp /\ resp'.op = op

\* C5: a create_sale request that passes validation and asks for more than
\* the lots of its owner and ticker hold, by more than TOLERANCE (no lot at
\* all included), is answered 400 with InsufficientSharesError raised at the
\* availability check, and leaves purchases, sales and assignments as they were.
C5_InsufficientRejected ==
    [][(/\ Answers("create_sale")
        /\ resp'.site # "validate"
        /\ resp'.shares_sold >
               TotalRemaining(purchases, assignments, resp'.user_id, resp'.ticker)
               + TOLERANCE)
       => /\ resp'.code = 400
          /\ resp'.exc = "InsufficientSharesError"
          /\ resp'.site = "check"
          /\ Ledger' = Ledger]_vars

\* a sale refused for want of shares while a lot of the ticker still holds some
C5_Witness ==
    /\ resp.op = "create_sale"
    /\ resp.site = "check"
    /\ resp.exc = "InsufficientSharesError"
    /\ TotalRemaining(purchases, assignments, resp.user_id, resp.ticker) > TOLERANCE
    /\ sales # {}

\* C6: create_sale is atomic to other requests.  A Sale becomes visible in
\* the same step as all of its Assignments (they add up to shares_sold within
\* TOLERANCE), an Assignment becomes visible only with its Sale, and
\* while a request has flushed and not committed, and when it rolls back,
\* the committed rows show neither its Sale nor an Assignment of it.
C6_AtomicVisibility ==
    [][/\ \A s \in NewSales : SaleSumOk(sales', assignments', s.id)
       /\ \A a \in assignments' \ assignments : \E s \in NewSales : s.id = a.sale_id
       /\ \A w \in Workers :
             pc'[w] = "sale_flushed"
             => /\ txSale'[w].id \notin Ids(sales')
                /\ PurchaseAssignments(assignments', txSale'[w].id) = {}
       /\ \A w \in Workers :
             (pc[w] = "sale_flushed" /\ Answers("create_sale") /\ resp'.code = 400)
             => Ledger' = Ledger]_vars

\* a preview answered while another request's sale is flushed, not committed
C6_Witness ==
    /\ resp.op = "preview_sale"
    /\ resp.code = 200
    /\ resp.result.total_available = 4
    /\ \E w \in Workers : pc[w] = "sale_flushed" /\ txSale[w].shares_sold = 3

\* C7 as stated: in every reachable state the Assignments of every Sale add
\* up to its shares_sold within TOLERANCE.
C7_SaleSumAlways ==
    \A s \in sales : SaleSumOk(sales, assignments, s.id)

\* C7, amended: the Assignments of a Sale add up to its shares_sold within
\* TOLERANCE from its creation on, through lot creations, other sales and
\* sale deletions; the sum stops matching only in a step that deletes a lot
\* the Sale has an Assignment on.
C7_SaleSumUntilLotDeleted ==
    [][\A s \in sales' :
          ~SaleSumOk(sales', assignments', s.id)
          => /\ s.id \in Ids(sales)
             /\ \/ ~SaleSumOk(sales, assignments, s.id)
                \/ \E a \in assignments \ assignments' :
                      /\ a.sale_id = s.id
                      /\ a.purchase_id \in Ids(purchases) \ Ids(purchases')]_vars

\* a Sale left with fewer shares assigned than sold, another Sale still whole
C7_Witness ==
    /\ \E s \in sales :
          s.shares_sold - SumAssigned(PurchaseAssignments(assignments, s.id)) > TOLERANCE
    /\ \E s \in sales :
          /\ PurchaseAssignments(assignments, s.id) # {}
          /\ SaleSumOk(sales, assignments, s.id)

\* C8: a create_sale whose walk leaves remaining_to_sell > TOLERANCE after a
\* passing availability check fails with an error other than the user-facing
\* InsufficientSharesError.
C8_WalkFailureDistinct ==
    (resp.op = "create_sale" /\ resp.site = "walk")
    => resp.exc # "InsufficientSharesError"

\* C9: a create_sale request answered with an error (status 400 or above),
\* the request with a reinvestment included, leaves purchases, sales and
\* assignments as they were before it.
C9_ErrorsBeforeWrites ==
    [][(Answers("create_sale") /\ resp'.code >= 400) => Ledger' = Ledger]_vars

\* C10: a preview leaves purchases, sales and assignments as they are, and
\* its result is a function of them and of (owner, ticker, quantity).
C10_PreviewPure ==
    [][Answers("preview_sale")
       => /\ Ledger' = Ledger
          /\ resp'.code = 200
             => resp'.result = PreviewFifoAssignment(purchases, assignments,
                                   resp'.user_id, resp'.ticker, resp'.shares_sold)]_vars

\* a preview over two lots, answered with sales already in the ledger
C10_Witness ==
    /\ resp.op = "preview_sale"
    /\ resp.code = 200
    /\ Len(resp.result.assignments) = 2
    /\ assignments # {}

\* C11: a preview of shares_to_sell > 0 is answered with a result (status
\* 200) that has is_sufficient, and when is_sufficient is false the result
\* carries the shortfall, shares_to_sell minus total_available.
C11_PreviewReportsShortfall ==
    (resp.op = "preview_sale" /\ resp.shares_sold > 0)
    => /\ resp.code = 200
       /\ "is_sufficient" \in DOMAIN resp.result
       /\ ~resp.result.is_sufficient
          => /\ "shortfall" \in DOMAIN resp.result
             /\ resp.result.shortfall = resp.shares_sold - resp.result.total_available

\* the linkage of a Sale is set
LinkageSet(s) == s.reinvestment_purchase_id # None \/ s.reinvested_amount # None

ReinvestmentConserved(s) ==
    /\ s.reinvested_amount # None
    /\ s.cash_retained # None
    /\ 0 < s.reinvested_amount
    /\ s.reinvested_amount <= s.total_proceeds
    /\ s.reinvested_amount + s.cash_retained = s.total_proceeds
    /\ s.cash_retained >= 0

\* C12: reinvestment conservation.  After every step, every Sale whose
\* linkage is set has 0 < reinvested_amount <= total_proceeds and
\* reinvested_amount + cash_retained = total_proceeds; and a call of
\* link_sale_to_reinvestment that returns leaves the Sale with the lot and
\* the amount of that call, whatever linkage it had before.
C12_ReinvestmentConservation ==
    [][/\ \A s \in sales' : LinkageSet(s) => ReinvestmentConserved(s)
       /\ (Answers("link_reinvestment") /\ resp'.exc = "")
          => \E s \in sales' :
                /\ s.id = resp'.sale_id
                /\ s.reinvestment_purchase_id = resp'.result.purchase_id
                /\ s.reinvested_amount = resp'.result.reinvested_amount
                /\ s.cash_retained = s.total_proceeds - s.reinvested_amount]_vars

\* a Sale linked by create_sale to its reinvestment lot (amount 4) and then
\* linked again, to the lot it sold from, with all of its proceeds
C12_Witness ==
    /\ resp.op = "link_reinvestment"
    /\ resp.exc = ""
    /\ \E s \in sales : \E p, m \in purchases :
          /\ s.id = resp.sale_id
          /\ m.ticker = "MSFT"
          /\ p.ticker = "AAPL"
          /\ s.reinvestment_purchase_id = p.id
          /\ s.reinvested_amount = 6
          /\ s.cash_retained = 0

\* the arguments of a link_sale_to_reinvestment call are invalid in the state
\* it is made in
LinkInvalid(R) ==
    \/ R.sale_id \notin Ids(sales)
    \/ R.result.purchase_id \notin Ids(purchases)
    \/ R.result.reinvested_amount <= 0
    \/ \E s \in sales : s.id = R.sale_id /\ R.result.reinvested_amount > s.total_proceeds

\* C13: link_sale_to_reinvestment called with a sale id or a lot id that
\* does not exist, with reinvested_amount <= 0 or with reinvested_amount >
\* the sale's total_proceeds raises ValueError and leaves purchases, sales
\* (the linkage fields of the sale included) and assignments as they were.
C13_LinkErrorChangesNothing ==
    [][(Answers("link_reinvestment") /\ LinkInvalid(resp'))
       => /\ resp'.exc = "ValueError"
          /\ Ledger' = Ledger]_vars

\* a call refused for an amount above the proceeds, on a Sale that is linked
C13_Witness ==
    /\ resp.op = "link_reinvestment"
    /\ resp.exc = "ValueError"
    /\ resp.result.reinvested_amount = 8
    /\ resp.result.purchase_id \in Ids(purchases)
    /\ \E s \in sales : s.id = resp.sale_id /\ LinkageSet(s) /\ s.reinvested_amount = 4

\* the sales a step removes
GoneSales == {s \in sales : s.id \notin Ids(sales')}

\* C14: deleting a Sale deletes exactly its Assignments.  The step that
\* answers DELETE /sales/<id> with 200 removes one Sale and the Assignments
\* with its sale_id, and leaves the lots, the other Sales and the other
\* Assignments as they were; and since create_sale adds nothing but the
\* new Sale's Assignments to the assignments, deleting that Sale next gives
\* every lot the shares_remaining it had before the sale.
C14_DeleteSaleRestores ==
    [][/\ (Answers("delete_sale") /\ resp'.code = 200)
          => /\ Cardinality(GoneSales) = 1
             /\ sales' = sales \ GoneSales
             /\ purchases' = purchases
             /\ assignments' = {a \in assignments : a.sale_id \notin Ids(GoneSales)}
             /\ \A a \in assignments' : a.sale_id \in Ids(sales')
       /\ \A s \in NewSales :
             /\ {a \in assignments' : a.sale_id # s.id} = assignments
             /\ \A p \in purchases :
                   SharesRemaining(p, {a \in assignments' : a.sale_id # s.id})
                   = SharesRemaining(p, assignments)]_vars

\* a Sale deleted while another Sale keeps its Assignments on the same lot
C14_Witness ==
    /\ resp.op = "delete_sale"
    /\ resp.code = 200
    /\ \E s \in sales : \E p \in purchases :
          /\ AssignedFrom(assignments, s.id, p.id)
          /\ SharesRemaining(p, assignments) = p.shares_bought - s.shares_sold

\* the example of examples/sales_usage_example.py: lots of 100 @ 150,
\* 50 @ 160 and 75 @ 155, a sale of 120 @ 170
ExampleRows ==
    <<[id |-> 1, purchase_date |-> 1, price_at_purchase |-> 150, shares_remaining |-> 100],
      [id |-> 2, purchase_date |-> 2, price_at_purchase |-> 160, shares_remaining |-> 50],
      [id |-> 3, purchase_date |-> 3, price_at_purchase |-> 155, shares_remaining |-> 75]>>

ExampleAssigned ==
    <<[purchase_id |-> 1, shares_assigned |-> 100, cost_basis |-> 15000,
       proceeds |-> 17000, realized_gain_loss |-> 2000],
      [purchase_id |-> 2, shares_assigned |-> 20, cost_basis |-> 3200,
       proceeds |-> 3400, realized_gain_loss |-> 200]>>

\* what a sale has assigned from the lots that come before lot L in the walk
AssignedBefore(A, s, L) ==
    SumAssigned({a \in PurchaseAssignments(A, s.id) :
                   \E M \in LotsOf(s) : M.id = a.purchase_id /\ OrderBefore(M, L)})

\* C15: every Assignment that create_sale makes for a sale S is on a lot L of
\* S's owner and ticker and has 0 < shares_assigned <= L's shares_remaining
\* before the sale, shares_assigned <= what S had left to assign when the
\* walk came to L, cost_basis = shares_assigned x L.price_at_purchase,
\* proceeds = shares_assigned x S.price_at_sale and realized_gain_loss =
\* proceeds - cost_basis; and the walk of the example gives 100 shares
\* (15000, 17000, 2000) from lot 1 and 20 shares (3200, 3400, 200) from lot 2.
C15_AssignmentFields ==
    [][/\ FifoLoop(ExampleRows, 1, 120, 170, <<>>).assigned = ExampleAssigned
       /\ \A s \in NewSales : \A a \in PurchaseAssignments(assignments', s.id) :
             \E L \in LotsOf(s) :
                /\ L.id = a.purchase_id
                /\ a.shares_assigned > 0
                /\ a.shares_assigned <= SharesRemaining(L, assignments)
                /\ a.shares_assigned <= s.shares_sold - AssignedBefore(assignments', s, L)
                /\ a.cost_basis = a.shares_assigned * L.price_at_purchase
                /\ a.proceeds = a.shares_assigned * s.price_at_sale
                /\ a.realized_gain_loss = a.proceeds - a.cost_basis]_vars

\* a sale of 6 answered 201 that took a lot's last 2 shares and 4 of another
C15_Witness ==
    /\ resp.op = "create_sale"
    /\ resp.code = 201
    /\ resp.shares_sold = 6
    /\ \E a, b \in PurchaseAssignments(assignments, resp.sale_id) :
          /\ a.shares_assigned = 2 /\ a.cost_basis = 4 /\ a.proceeds = 6
          /\ b.shares_assigned = 4 /\ b.cost_basis = 8 /\ b.proceeds = 12
          /\ b.realized_gain_loss = 4

\* an oracle that differs from o in the one quote get_price_on_date gives for
\* ticker t on date d
Drift(o, t, d, q) == [o EXCEPT !.on_date[<<t, d>>] = q]

\* the lots of the owner a report was made for
ReportLots == {p \in purchases : p.user_id = resp.user_id}

\* no lot of another ticker was bought on p's day, so that the oracle's quote
\* for p's ticker on that day is asked for no other lot
OnlyTickerOfItsDay(p) ==
    \A x \in ReportLots : x.purchase_date = p.purchase_date => x.ticker = p.ticker

UnrealizedOfPriced(lots, A, o) ==
    LET priced == {p \in lots : o.current[p.ticker] # 0}
    IN SumFn([p \in priced |->
                 FMul(ToFloat(SharesRemaining(p, A)),
                      ToFloat(o.current[p.ticker]) - ToFloat(p.price_at_purchase))],
             priced)

\* C17: in the portfolio summary a lot whose ticker has no current price adds
\* neither its value nor its cost basis to unrealized_gains, and a benchmark
\* without a current price is left out or reported with null figures, never
\* with numbers computed as if the missing price were 0.
C17_SummarySkipsMissingPrice ==
    (resp.op = "portfolio_summary" /\ ReportLots # {}) =>
       LET r == resp.result
       IN /\ r.report.actual.unrealized_gains
               = Round(UnrealizedOfPriced(ReportLots, assignments, r.oracle))
          /\ \A i \in 1..Len(r.report.alternatives) :
                LET alt == r.report.alternatives[i]
                IN (alt.ticker \in OracleTickers /\ r.oracle.current[alt.ticker] = 0) =>
                      /\ alt.current_value = None
                      /\ alt.gain_loss = None

\* the tickers of the owner's lots that hold shares on a date
HeldOn(date) ==
    {p.ticker : p \in {x \in ReportLots :
                          /\ x.purchase_date <= date
                          /\ x.shares_bought
                               - SharesSoldByDate(sales, assignments, x, date) > 0}}

\* C18: in the history series a date on which the price of a held ticker is
\* missing has a null entry in the actual series, and a date on which the
\* price of a benchmark is missing has a null entry in that benchmark's
\* series: a gap, not 0 and not a sum over the other lots.
C18_HistoryGapsAreNull ==
    resp.op = "portfolio_history" =>
       LET r == resp.result
           report == r.report
       IN \A k \in 1..Len(report.dates) :
             LET date == report.dates[k]
             IN /\ (\E t \in HeldOn(date) : r.oracle.history[<<t, date>>] = 0) =>
                      report.actual[k] = None
                /\ \A i \in 1..Len(report.alternatives) :
                      LET alt == report.alternatives[i]
                          of == IF alt.ticker = "MONTHLY_DCA_SPY" THEN "SPY"
                                ELSE alt.ticker
                      IN r.oracle.history[<<of, date>>] = 0 => alt.values[k] = None

\* the lots of an owner and ticker
OfPair(P, user_id, ticker) == {p \in P : p.user_id = user_id /\ p.ticker = ticker}

\* the ledger after a whole create_sale request r, the oracle quoting price
ApplySale(L, r, price) ==
    LET chk == SaleCheck(L.purchases, L.assignments, r)
        sale == NewSale(L.sales, r)
        walk == SaleWalk(chk.rows, r)
        rows == L.assignments \cup AssignmentRows(sale.id, walk.assigned)
        re == Reinvest(L.purchases, CommitSale(L.sales, sale), sale.id, r, price)
    IN IF chk.site # "" \/ WalkFailed(walk) THEN L
       ELSE IF WantsReinvestment(r)
       THEN [purchases |-> re.purchases, sales |-> re.sales, assignments |-> rows]
       ELSE [purchases |-> L.purchases, sales |-> CommitSale(L.sales, sale),
             assignments |-> rows]

\* the one-to-one maps from a set of ids to another that keep the ids of Old
Renamings(From, To, Old) ==
    {[i \in From |-> IF i \in Old THEN i ELSE h[i]] :
        h \in {k \in [From \ Old -> To \ Old] : \A i, j \in From \ Old :
                                                     k[i] = k[j] => i = j}}

\* ledger M with its lots renumbered by g and its sales by f
Renumbered(M, f, g) ==
    [purchases |-> {[p EXCEPT !.id = g[p.id]] : p \in M.purchases},
     sales |-> {[s EXCEPT !.id = f[s.id],
                          !.reinvestment_purchase_id =
                              IF @ \in DOMAIN g THEN g[@] ELSE @] : s \in M.sales},
     assignments |-> {[a EXCEPT !.sale_id = f[a.sale_id],
                                !.purchase_id = g[a.purchase_id]] : a \in M.assignments}]

\* M and N are the same ledger but for the ids of the rows that L has not
SameButNewIds(L, M, N) ==
    /\ Cardinality(M.sales) = Cardinality(N.sales)
    /\ Cardinality(M.purchases) = Cardinality(N.purchases)
    /\ \E f \in Renamings(Ids(M.sales), Ids(N.sales), Ids(L.sales)) :
       \E g \in Renamings(Ids(M.purchases), Ids(N.purchases), Ids(L.purchases)) :
          Renumbered(M, f, g) = N

ParRequests == {SaleRequest(in) : in \in ParInputs.sale}

DifferentPairs(r1, r2) == <<r1.user_id, r1.ticker>> # <<r2.user_id, r2.ticker>>

\* r reinvests into the pair that q sells from
ReinvestsInto(r, q) ==
    WantsReinvestment(r) /\ <<r.user_id, r.reinvest_ticker>> = <<q.user_id, q.ticker>>

Here == [purchases |-> purchases, sales |-> sales, assignments |-> assignments]

\* no request under way and no answer pending: every ledger the model reaches
\* is the ledger of such a state
AtRest == resp = NoResp /\ \A w \in Workers : pc[w] = "idle"

\* what a step that adds a sale, or answers a preview, or loads the lots of
\* a request may read and change
PairFrame ==
    /\ \A s \in NewSales :
          /\ \A p \in purchases \ LotsOf(s) :
                /\ p \in purchases'
                /\ SharesRemaining(p, assignments') = SharesRemaining(p, assignments)
          /\ \A a \in assignments' \ assignments :
                a.purchase_id \in Ids(LotsOf(s))
    /\ (Answers("preview_sale") /\ resp'.code = 200) =>
          resp'.result = PreviewFifoAssignment(
                             OfPair(purchases, resp'.user_id, resp'.ticker),
                             assignments, resp'.user_id, resp'.ticker,
                             resp'.shares_sold)
    /\ \A w \in Workers :
          /\ (pc[w] = "idle" /\ pc'[w] = "sale_checked") =>
                snap'[w] = QueryPurchases(
                               OfPair(purchases, req'[w].user_id, req'[w].ticker),
                               assignments, req'[w].user_id, req'[w].ticker)
          /\ (pc[w] # "idle" /\ pc'[w] = pc[w]
                /\ QueryPurchases(purchases', assignments', req[w].user_id, req[w].ticker)
                     # QueryPurchases(purchases, assignments, req[w].user_id, req[w].ticker))
             => \/ \E s \in NewSales : ~DifferentPairs(s, req[w])
                \/ \E p \in purchases' \ purchases : ~DifferentPairs(p, req[w])

\* C19 as claimed: create_sale and preview_fifo on (owner, ticker) read and
\* consume only the lots of that owner and ticker and leave the
\* shares_remaining of every other lot unchanged, and two create_sale
\* requests on different (owner, ticker) pairs reach the same final state in
\* either order.
C19_SameFinalState ==
    /\ [][PairFrame]_vars
    /\ [](\A r1, r2 \in ParRequests : \A price \in OraclePrices :
            (AtRest /\ DifferentPairs(r1, r2)) =>
               ApplySale(ApplySale(Here, r1, price), r2, price)
                 = ApplySale(ApplySale(Here, r2, price), r1, price))

\* C19 (amended): as claimed, with the final states of two create_sale
\* requests on different pairs, neither reinvesting into the pair the other
\* sells from, equal but for the ids of the rows the two requests create.
C19_Independence ==
    /\ [][PairFrame]_vars
    /\ [](\A r1, r2 \in ParRequests : \A price \in OraclePrices :
            (AtRest /\ DifferentPairs(r1, r2)
                    /\ ~ReinvestsInto(r1, r2) /\ ~ReinvestsInto(r2, r1))
            => SameButNewIds(Here,
                   ApplySale(ApplySale(Here, r1, price), r2, price),
                   ApplySale(ApplySale(Here, r2, price), r1, price)))

\* a sale committed and answered while the worker of a request on another
\* pair holds the lots it loaded before
C19_Witness ==
    /\ resp.op = "create_sale"
    /\ resp.code = 201
    /\ \E s \in sales : \E w \in Workers :
          /\ s.id = resp.sale_id
          /\ pc[w] = "sale_checked"
          /\ DifferentPairs(s, req[w])
          /\ Len(snap[w]) > 0

\* C20: with no concurrent writer, a create_sale that passes the validation
\* and the availability check ends its FIFO walk with remaining_to_sell <=
\* TOLERANCE and so never takes the failure branch after the walk, whatever
\* the ledger, lots with 0 < shares_remaining <= TOLERANCE included.
C20_CheckImpliesWalkCompletes ==
    [][(Answers("create_sale") /\ resp'.site \notin {"validate", "check"})
       => LET rows == QueryPurchases(purchases, assignments,
                                     resp'.user_id, resp'.ticker)
          IN /\ ~InsufficientCheck(TotalAvailable(rows), resp'.shares_sold)
             /\ FifoLoop(rows, 1, resp'.shares_sold, 1, <<>>).remaining_to_sell
                   <= TOLERANCE
             /\ resp'.site # "walk"]_vars

\* what a preview lists: (lot id, shares, cost basis) in the order of the list
PreviewTriples(result) ==
    [i \in 1..Len(result.assignments) |->
        <<result.assignments[i].purchase_id,
          result.assignments[i].shares_to_assign,
          result.assignments[i].cost_basis>>]

\* what the walk of create_sale adds, in the order it adds it
WalkTriples(assigned) ==
    [i \in 1..Len(assigned) |->
        <<assigned[i].purchase_id, assigned[i].shares_assigned,
          assigned[i].cost_basis>>]

\* C21: preview and create do the same walk.  On a state where create_sale
\* succeeds, the (lot id, shares, cost basis) list that preview_fifo gives
\* for the same owner, ticker and quantity on that state is, in the same
\* order, what create_sale persists as the sale's Assignments, and the
\* preview's total_cost_basis is the sum of the persisted cost bases.
C21_PreviewMatchesCreate ==
    [][\A s \in NewSales :
          LET pv == PreviewFifoAssignment(purchases, assignments, s.user_id,
                                          s.ticker, s.shares_sold)
              walk == FifoLoop(QueryPurchases(purchases, assignments,
                                              s.user_id, s.ticker),
                               1, s.shares_sold, s.price_at_sale, <<>>)
              rows == PurchaseAssignments(assignments', s.id)
          IN /\ PreviewTriples(pv) = WalkTriples(walk.assigned)
             /\ {<<a.purchase_id, a.shares_assigned, a.cost_basis>> : a \in rows}
                  = {PreviewTriples(pv)[i] : i \in 1..Len(pv.assignments)}
             /\ Cardinality(rows) = Len(pv.assignments)
             /\ pv.total_cost_basis = SumFn([a \in rows |-> a.cost_basis], rows)]_vars

\* a sale created over a lot left within the tolerance, which the walk
\* passes over, and a later lot that it draws on
C21_Witness ==
    /\ resp.op = "create_sale"
    /\ resp.code = 201
    /\ \E p, q \in purchases :
          /\ p.ticker = q.ticker /\ p.user_id = q.user_id
          /\ OrderBefore(p, q)
          /\ SharesRemaining(p, assignments) > 0
          /\ SharesRemaining(p, assignments) <= TOLERANCE
          /\ AssignedFrom(assignments, resp.sale_id, q.id)
          /\ ~AssignedFrom(assignments, resp.sale_id, p.id)

\* two lots of one owner and ticker bought on the same day, p inserted first
SameDayPair(p, q) ==
    /\ p.user_id = q.user_id /\ p.ticker = q.ticker
    /\ p.purchase_date = q.purchase_date
    /\ p.id < q.id

C23_ReferentialIntegrity ==
    /\ [](\A a \in assignments :
             /\ Cardinality({p \in purchases : p.id = a.purchase_id}) = 1
             /\ Cardinality({s \in sales : s.id = a.sale_id}) = 1
             /\ \A p \in purchases, s \in sales :
                   (p.id = a.purchase_id /\ s.id = a.sale_id)
                       => (p.user_id = s.user_id /\ p.ticker = s.ticker))
    /\ [][\A a \in assignments' \ assignments :
             a.sale_id \in {s.id : s \in NewSales}]_vars

\* C24: invalidate-on-write.  Every request that commits a change to the
\* ledger (a lot created or deleted, a sale created or deleted, a bulk import,
\* a guest migration) leaves the in-memory current-price cache empty.
C24_InvalidateOnWrite ==
    [][Ledger' # Ledger => price_cache' = {}]_vars

\* C25: the summary's gain/loss accounts for realized and unrealized gains.
\* Whenever a summary is answered with the current price of every held
\* ticker available (each lot's amount being shares_bought x price_at_purchase),
\* gain_loss equals unrealized_gains + realized_gains.
C25_GainLossIsRealizedPlusUnrealized ==
    (/\ resp.op = "portfolio_summary"
     /\ \A p \in purchases :
           /\ p.amount = p.shares_bought * p.price_at_purchase
           /\ p.user_id = resp.user_id => resp.result.oracle.current[p.ticker] # 0)
        => resp.result.report.actual.gain_loss
             = resp.result.report.actual.unrealized_gains
               + resp.result.report.actual.realized_gains

\* the shares a preview proposes to assign, added up
RECURSIVE SumToAssign(_, _)
SumToAssign(items, i) ==
    IF i > Len(items) THEN 0 ELSE items[i].shares_to_assign + SumToAssign(items, i + 1)

\* C26: preview and create agree on sufficiency.  With no concurrent writer,
\* for a create_sale request with valid quantity and price, the preview of
\* the same owner, ticker and quantity on the state before it reports
\* is_sufficient = true exactly when the request persists its sale, and
\* when is_sufficient is true the previewed shares_to_assign add up to the
\* quantity within TOLERANCE.
C26_PreviewAgreesWithCreate ==
    [][(Answers("create_sale") /\ resp'.site # "validate")
       => LET pv == PreviewFifoAssignment(purchases, assignments, resp'.user_id,
                                          resp'.ticker, resp'.shares_sold)
          IN /\ pv.is_sufficient <=> NewSales # {}
             /\ pv.is_sufficient
                   => Abs(SumToAssign(pv.assignments, 1) - resp'.shares_sold)
                         <= TOLERANCE]_vars

\* C27: no sale consumes shares that were not yet bought.  In every
\* reachable state, for every Assignment the lot it references was bought on
\* or before the sale_date of the sale it references.
C27_SoldAfterBought ==
    \A a \in assignments : \A p \in purchases, s \in sales :
        (p.id = a.purchase_id /\ s.id = a.sale_id)
            => p.purchase_date <= s.sale_date

\* the Assignments a step adds for the sale s
AddedFor(s) == PurchaseAssignments(assignments', s.id)

\* C28 as claimed: proceeds are conserved across the split.  For every sale
\* created, the proceeds of its Assignments add up to total_proceeds, and
\* their realized_gain_loss to total_proceeds minus their cost bases, also
\* for a sale admitted through the tolerance of the availability check.
C28_ProceedsConserved ==
    [][\A s \in NewSales :
          /\ SumFn([a \in AddedFor(s) |-> a.proceeds], AddedFor(s)) = s.total_proceeds
          /\ SumFn([a \in AddedFor(s) |-> a.realized_gain_loss], AddedFor(s))
                = s.total_proceeds
                  - SumFn([a \in AddedFor(s) |-> a.cost_basis], AddedFor(s))]_vars

\* C28 as amended: the proceeds of a sale's Assignments are the shares
\* assigned times price_at_sale; they fall short of total_proceeds by at most
\* TOLERANCE x price_at_sale; and the realized_gain_loss of the Assignments
\* add up to their proceeds minus their cost bases.
C28_ProceedsWithinTolerance ==
    [][\A s \in NewSales :
          LET proceeds == SumFn([a \in AddedFor(s) |-> a.proceeds], AddedFor(s))
              shares == SumFn([a \in AddedFor(s) |-> a.shares_assigned], AddedFor(s))
              cost == SumFn([a \in AddedFor(s) |-> a.cost_basis], AddedFor(s))
              gain == SumFn([a \in AddedFor(s) |-> a.realized_gain_loss], AddedFor(s))
          IN /\ s.total_proceeds = s.shares_sold * s.price_at_sale
             /\ proceeds = shares * s.price_at_sale
             /\ proceeds <= s.total_proceeds
             /\ s.total_proceeds - proceeds <= TOLERANCE * s.price_at_sale
             /\ gain = proceeds - cost]_vars

\* a sale admitted through the tolerance: one unit short of shares_sold
C28_Witness ==
    /\ resp.op = "create_sale"
    /\ resp.code = 201
    /\ \E s \in sales :
          /\ s.id = resp.sale_id
          /\ SumAssigned(PurchaseAssignments(assignments, s.id)) = s.shares_sold - TOLERANCE

\* the sale s points at a lot of another owner
CrossesOwners(s, P) ==
    \E p \in P : p.id = s.reinvestment_purchase_id /\ p.user_id # s.user_id

\* C29: reinvestment links never cross owners.  In every reachable state a
\* Sale whose reinvestment lot is set references a lot of the Sale's owner,
\* and a call of link_sale_to_reinvestment for a sale and a lot of different
\* users does not succeed.
C29_LinksStayWithinOwner ==
    /\ [](\A s \in sales : ~CrossesOwners(s, purchases))
    /\ [][(Answers("link_reinvestment") /\ resp'.exc = "")
            => \A s \in sales, p \in purchases :
                  (s.id = resp'.sale_id /\ p.id = resp'.result.purchase_id)
                      => s.user_id = p.user_id]_vars

\* C30: reinvestment linkage stays resolvable.  In every reachable state,
\* also after the reinvestment lot was deleted by its owner, a Sale that has
\* reinvested_amount and cash_retained set has a reinvestment_purchase_id
\* that identifies an existing lot.
C30_LinkageResolvable ==
    \A s \in sales :
        (s.reinvested_amount # None /\ s.cash_retained # None)
            => \E p \in purchases : p.id = s.reinvestment_purchase_id
====
